---- MODULE Spec2Model ----
(***************************************************************************)
(* Model of src/app.py: a Streamlit script that loads an album catalog     *)
(* from a CSV file, filters and paginates it, computes statistics, and     *)
(* draws a seeded sample of 30 albums into a 30-day calendar.              *)
(*                                                                         *)
(* One behaviour of the model is a sequence of script runs.  A run walks   *)
(* the script top to bottom (pc): load, browse, page, stats, viz,          *)
(* discover, done; an uncaught exception ends the run at pc = "error".     *)
(*                                                                         *)
(* Text is a sequence of one-character strings; a missing value (pd.NA)    *)
(* is the sequence NA.  An optional number is <<>> (None/NaN) or <<n>>.    *)
(***************************************************************************)
EXTENDS Integers, Sequences, FiniteSets, Bags, TLC

VARIABLES
    source,         \* the file polskirap2.csv: Missing or a sequence of raw rows
    pc,             \* position of the current script run
    err,            \* the stage whose exception ended the run, or "none"
    runs,           \* number of script runs started so far
    load_cache,     \* st.cache_data of load_data: <<>> or <<DataFrame>>
    data,           \* the script's variable `data`
    filters,        \* tab 0 widget values: artist, year (pair), label, tracklist
    filtered_data,  \* tab 0 result
    total_pages,    \* tab 0 page count
    page,           \* tab 0 selected page
    page_rows,      \* tab 0 rows shown
    stats,          \* tab 1 results
    viz,            \* tab 2 results
    discover_args,  \* tab 3 widget values of the last click: start, end, label
    discover_cache, \* st.cache_data of generate_discover_list
    cache_hit,      \* whether the last call was served from discover_cache
    discover_data,  \* tab 3 result of the last click
    cells           \* the calendar drawn by create_interactive_calendar

vars == <<source, pc, err, runs, load_cache, data, filters, filtered_data,
          total_pages, page, page_rows, stats, viz, discover_args,
          discover_cache, cache_hit, discover_data, cells>>

(***************************************************************************)
(* Bounds of the model                                                     *)
(***************************************************************************)
MaxRows == 32       \* longest CSV file considered
MaxSmall == 3       \* rows of a CSV file drawn from all templates
MaxRuns == 2        \* script runs per behaviour

(***************************************************************************)
(* Program constants                                                       *)
(***************************************************************************)
SLIDER_YEAR_MIN == 1991
SLIDER_YEAR_MAX == 2024
STATS_DEFAULT_LO == 1990
STATS_DEFAULT_HI == 2024
results_per_page == 20
SAMPLE_N == 30
NUM_DAYS == 30
WEEK_LEN == 7

(***************************************************************************)
(* Values                                                                  *)
(***************************************************************************)
NA == <<"<NA>">>
None == <<>>
Some(v) == <<v>>
notna(x) == x # NA

Min2(a, b) == IF a <= b THEN a ELSE b
Max2(a, b) == IF a >= b THEN a ELSE b

COLUMNS == {"artist", "album_title", "year", "label", "track_count",
            "tracklist", "thumb"}

\* pd.DataFrame(): no columns, no rows
EmptyDataFrame == [columns |-> {}, rows |-> <<>>]

(***************************************************************************)
(* Python str methods used by the loader                                   *)
(***************************************************************************)
\* U+00B2 SUPERSCRIPT TWO: str.isdigit() is True for it, int() rejects it
SUPERSCRIPT_TWO == "<U+00B2>"
DecimalChars == {"0", "1", "2", "3", "4", "5", "6", "7", "8", "9"}

\* x.replace(',', '')
StripCommas(x) == SelectSeq(x, LAMBDA c : c # ",")

\* str.isdigit(): non-empty and every character has the Unicode digit property
IsDigit(s) == Len(s) > 0 /\ \A i \in 1..Len(s) : s[i] \in DecimalChars \cup {SUPERSCRIPT_TWO}

DigitVal(c) ==
    CASE c = "0" -> 0 [] c = "1" -> 1 [] c = "2" -> 2 [] c = "3" -> 3
      [] c = "4" -> 4 [] c = "5" -> 5 [] c = "6" -> 6 [] c = "7" -> 7
      [] c = "8" -> 8 [] c = "9" -> 9

\* int(s) raises ValueError unless s is a non-empty run of decimal digits
IntRaises(s) == Len(s) = 0 \/ \E i \in 1..Len(s) : s[i] \notin DecimalChars

RECURSIVE IntOf(_)
IntOf(s) == IF s = <<>> THEN 0
            ELSE IntOf(SubSeq(s, 1, Len(s) - 1)) * 10 + DigitVal(s[Len(s)])

\* the lambda of line 36, on one raw year value
YearIsParsed(x) == notna(x) /\ IsDigit(StripCommas(x))
YearRaises(x) == YearIsParsed(x) /\ IntRaises(StripCommas(x))
ParseYear(x) == IF YearIsParsed(x) THEN Some(IntOf(StripCommas(x))) ELSE None

(***************************************************************************)
(* The CSV files considered.  A raw row holds the text of each field as    *)
(* pd.read_csv delivers it (dtype 'string', 'Int32'): year is still text.  *)
(***************************************************************************)
Missing == [exists |-> FALSE, rows |-> <<>>]
File(rows) == [exists |-> TRUE, rows |-> rows]

s_K44 == <<"K", "4", "4">>
s_Various == <<"V", "a", "r", "i", "o", "u", "s">>
s_OS == <<"O", ".", "S", ".">>
s_Asfalt == <<"A", "s", "f", "a", "l", "t">>
s_Nielegal == <<"N", "i", "e", "l", "e", "g", "a", "l">>
s_DJMC == <<"D", "e", "e", " ", "J", "a", "y", " ", "M", "i", "x", " ",
            "C", "l", "u", "b">>
s_SP == <<"S", ".", "P", ".">>
s_url == <<"u">>

Raw(artist, year, label, track_count, tracklist, thumb) ==
    [artist |-> artist, album_title |-> NA, year |-> year, label |-> label,
     track_count |-> track_count, tracklist |-> tracklist, thumb |-> thumb]

\* well-formed rows that pass the standing exclusions
CommonTemplates == <<
    Raw(s_K44, <<"1", "9", "9", "9">>, s_Asfalt, Some(18), <<"a", "|", "b">>, s_url),
    Raw(NA, <<"2", "0", "0", "0">>, s_Asfalt, Some(9), <<"a", "b">>, s_url),
    Raw(s_K44, <<"1", "9", "9", "1">>, s_Asfalt, Some(12), <<"b">>, NA),
    Raw(s_OS, <<"2", ",", "0", "2", "4">>, s_SP, None, <<"a", "b">>, NA) >>

\* rows with excluded, absent or malformed fields
OddTemplates == <<
    Raw(s_K44, <<"2", "0", "2", "5">>, s_SP, Some(1), <<"a", "|", "b">>, NA),
    Raw(s_Various, <<"1", "9", "9", "9">>, s_Nielegal, Some(20), <<"a", "b">>, NA),
    Raw(s_K44, <<"1", "9", "x", "9">>, NA, Some(7), NA, NA),
    Raw(s_OS, <<"2", "0", "0", "0">>, s_DJMC, None, <<"a">>, s_url),
    Raw(s_K44, <<",">>, s_Asfalt, Some(3), <<"b">>, NA),
    Raw(s_Various, <<"1", "9", "9", "1">>, s_Asfalt, Some(2), <<"a", "b">>, NA),
    Raw(s_K44, <<"1", "9", "9", "0">>, s_SP, Some(4), <<"a">>, s_url),
    Raw(s_K44, NA, s_Asfalt, Some(6), <<"a", "b">>, NA) >>

\* a row whose year text passes str.isdigit() and is no decimal number
BadYearRow == Raw(s_K44, <<SUPERSCRIPT_TWO>>, s_Asfalt, Some(5), <<"a">>, NA)

Templates == CommonTemplates \o OddTemplates

DigitChar(d) ==
    CASE d = 0 -> "0" [] d = 1 -> "1" [] d = 2 -> "2" [] d = 3 -> "3"
      [] d = 4 -> "4" [] d = 5 -> "5" [] d = 6 -> "6" [] d = 7 -> "7"
      [] d = 8 -> "8" [] d = 9 -> "9"

\* every row of a file has its own title
Title(i) == <<"T", DigitChar((i \div 10) % 10), DigitChar(i % 10)>>

Cyclic(pool, len, off) ==
    [i \in 1..len |->
        [pool[((off + i - 1) % Len(pool)) + 1] EXCEPT !.album_title = Title(i)]]

Sources ==
    {Missing, File(<<>>)}
    \cup {File(Cyclic(Templates, MaxSmall, off)) :
            off \in {o \in 0..(Len(Templates) - 1) : o % MaxSmall = 0}}
    \cup {File(Cyclic(CommonTemplates, len, 0)) : len \in (SAMPLE_N + 1)..MaxRows}
    \cup {File(<<BadYearRow>> \o Cyclic(CommonTemplates, 1, 0))}

(***************************************************************************)
(* load_data                                                               *)
(***************************************************************************)
\* pd.read_csv raises when the file is missing; the lambda raises on a row
LoadRaises(src) ==
    \/ ~src.exists
    \/ \E i \in 1..Len(src.rows) : YearRaises(src.rows[i].year)

\* the try block, and the except block's empty DataFrame
load_data(src) ==
    IF LoadRaises(src) THEN EmptyDataFrame
    ELSE [columns |-> COLUMNS,
          rows |-> [i \in 1..Len(src.rows) |->
                      [src.rows[i] EXCEPT !.year = ParseYear(src.rows[i].year)]]]

(***************************************************************************)
(* Series.str.contains(pat, na=False): pat is a regular expression.  The   *)
(* model covers the patterns built from literal characters, ".", "|" and   *)
(* "(": re.compile rejects an unclosed "(", "|" separates alternatives,    *)
(* "." matches any character, and re.search looks at every position.       *)
(***************************************************************************)
ReCompileRaises(pat) == \E i \in 1..Len(pat) : pat[i] = "("

\* the alternatives of pat
ReBranches(pat) ==
    LET bars == {0, Len(pat) + 1} \cup {i \in 1..Len(pat) : pat[i] = "|"}
    IN  {SubSeq(pat, a + 1, b - 1) :
            <<a, b>> \in {ab \in bars \X bars :
                            /\ ab[1] < ab[2]
                            /\ \A c \in bars : ~(ab[1] < c /\ c < ab[2])}}

ReMatchAt(branch, text, pos) ==
    /\ pos + Len(branch) - 1 <= Len(text)
    /\ \A k \in 1..Len(branch) :
          branch[k] = "." \/ branch[k] = text[pos + k - 1]

ReSearch(pat, text) ==
    \E branch \in ReBranches(pat) :
        \E pos \in 1..(Len(text) + 1) : ReMatchAt(branch, text, pos)

\* one element of the boolean Series; a missing value gives na=False
StrContains(value, pat) == notna(value) /\ ReSearch(pat, value)

\* between with an exclusive upper bound
BetweenExclusive(year, left, right) ==
    year # None /\ year[1] >= left /\ year[1] < right

\* one element of Series.between(left, right): inclusive, False for NaN
Between(year, left, right) ==
    year # None /\ year[1] >= left /\ year[1] <= right

s_VariousPat == s_Various
s_BlacklistPat == s_DJMC \o <<"|">> \o s_Nielegal

\* the two standing exclusions of lines 50-51, 116-117, 187-188
Excluded(row) ==
    StrContains(row.artist, s_VariousPat) \/ StrContains(row.label, s_BlacklistPat)

(***************************************************************************)
(* Tab 0: filter and pagination                                            *)
(***************************************************************************)
BrowseMask(row, f) ==
    /\ StrContains(row.artist, f.artist)
    /\ Between(row.year, f.year[1], f.year[2])
    /\ StrContains(row.label, f.label)
    /\ StrContains(row.tracklist, f.tracklist)
    /\ ~Excluded(row)

\* KeyError on a missing column, re.error on a pattern that does not compile
BrowseRaises(df, f) ==
    \/ ~({"artist", "year", "label", "tracklist"} \subseteq df.columns)
    \/ ReCompileRaises(f.artist)
    \/ ReCompileRaises(f.label)
    \/ ReCompileRaises(f.tracklist)

BrowseFilter(df, f) ==
    [columns |-> df.columns,
     rows |-> SelectSeq(df.rows, LAMBDA row : BrowseMask(row, f))]

\* -(-n // results_per_page)
TotalPages(n) == -((-n) \div results_per_page)

\* st.slider(label, min_value, max_value, value): the values the widget can
\* return.  Streamlit widens the bounds to hold the default value.
SliderRange(min_value, max_value, lo, hi) ==
    Min2(Min2(min_value, max_value), lo)..Max2(Max2(min_value, max_value), hi)

\* a slider whose default lies outside [min_value, max_value]: depending on
\* the Streamlit release the call raises or widens the bounds
SliderMayRaise(min_value, max_value, lo, hi) ==
    min_value > max_value \/ lo < min_value \/ hi > max_value

\* Python slice bounds of iloc[start:end] on a frame of n rows
SliceBound(i, n) == IF i < 0 THEN Max2(0, n + i) ELSE Min2(i, n)

PAGE_COLUMNS == {"artist", "album_title", "year", "label", "track_count"}

\* filtered_data.iloc[start_idx:end_idx][[...]]
PageRows(df, p) ==
    LET start_idx == (p - 1) * results_per_page
        end_idx == start_idx + results_per_page
        rows == SubSeq(df.rows, SliceBound(start_idx, Len(df.rows)) + 1,
                       SliceBound(end_idx, Len(df.rows)))
    IN  [i \in 1..Len(rows) |-> [c \in PAGE_COLUMNS |-> rows[i][c]]]

(***************************************************************************)
(* Tab 1: statistics                                                       *)
(***************************************************************************)
\* (data['year'] // 10) * 10, NaN where the year is NaN
Decade(year) == IF year = None THEN None ELSE Some((year[1] \div 10) * 10)

\* data['decade'] = ...: the column is added to the frame itself
WithDecade(df) ==
    [columns |-> df.columns \cup {"decade"},
     rows |-> [i \in 1..Len(df.rows) |->
                 [c \in DOMAIN df.rows[i] \cup {"decade"} |->
                     IF c = "decade" THEN Decade(df.rows[i].year) ELSE df.rows[i][c]]]]

\* Series.value_counts(): count per value, NaN dropped
ValueCounts(rows, col) ==
    LET keys == {rows[i][col][1] : i \in {j \in 1..Len(rows) : rows[j][col] # None}}
    IN  [k \in keys |-> Cardinality({i \in 1..Len(rows) : rows[i][col] = Some(k)})]

KnownYears(df) == {df.rows[i].year[1] : i \in {j \in 1..Len(df.rows) : df.rows[j].year # None}}

SetMin(S) == CHOOSE x \in S : \A y \in S : x <= y
SetMax(S) == CHOOSE x \in S : \A y \in S : x >= y

\* int(data['year'].min()) raises ValueError on NaN
StatsRaises(df) == ~("year" \in df.columns) \/ KnownYears(df) = {}

StatsMask(row, range) == Between(row.year, range[1], range[2]) /\ ~Excluded(row)

StatsFilter(df, range) ==
    [columns |-> df.columns,
     rows |-> SelectSeq(df.rows, LAMBDA row : StatsMask(row, range))]

(***************************************************************************)
(* Tab 2: visualizations                                                   *)
(***************************************************************************)
\* the options of the selectbox: data['year'].unique()
YearOptions(df) == {df.rows[i].year : i \in 1..Len(df.rows)}

\* the option the selectbox shows first, which the user keeps: sorted()
\* puts the least year first unless a NaN upsets its comparisons
FirstYearOptions(df) ==
    IF YearOptions(df) = {} THEN {None}
    ELSE IF None \in YearOptions(df) THEN YearOptions(df)
    ELSE {Some(SetMin(KnownYears(df)))}

\* data[data['year'] == selected_year]: NaN equals nothing
AlbumsInYear(df, selected_year) ==
    SelectSeq(df.rows, LAMBDA row : selected_year # None /\ row.year = selected_year)

\* groupby(['year', 'label']).size() without the blacklisted labels
LabelYearCounts(df) ==
    LET idx == {i \in 1..Len(df.rows) :
                    /\ df.rows[i].year # None
                    /\ notna(df.rows[i].label)
                    /\ ~StrContains(df.rows[i].label, s_BlacklistPat)}
        keys == {<<df.rows[i].year[1], df.rows[i].label>> : i \in idx}
    IN  [k \in keys |->
            Cardinality({i \in idx : <<df.rows[i].year[1], df.rows[i].label>> = k})]

(***************************************************************************)
(* DataFrame.sample(n, random_state=42): numpy RandomState(42).choice      *)
(* without replacement, i.e. the first n entries of permutation(len),      *)
(* a Fisher-Yates shuffle fed by MT19937 seeded with 42.                   *)
(***************************************************************************)
\* the first outputs of MT19937 seeded with 42, each reduced modulo 2^16
\* (random_interval reads only the bits under its mask)
MT19937_42 == <<
    56422, 15795, 860, 38158, 62570, 54343, 44732, 11284, 54886, 6265,
    16850, 62678, 37194, 21962, 47191, 60788, 44131, 60263, 16023, 41090,
    1685, 64820, 769, 59735, 62955, 64925, 56101, 2433, 5311, 37819,
    39188, 17568, 53707, 19769, 28693, 6396, 62187, 27480, 65072, 41434,
    25658, 18942, 57001, 18431, 64987, 2747, 58319, 59150, 189, 64445,
    19118, 35773, 53810, 1899, 56886, 1267, 31551, 50680, 11394, 3556,
    3890, 41606, 30740, 60232, 14502, 21777, 10627, 8792, 43323, 43021,
    8433, 43001, 11016, 23897, 2612, 56193, 58707, 55387, 54638, 23483 >>

\* the smallest 2^k - 1 that is >= max
RECURSIVE MaskFrom(_, _)
MaskFrom(max, mask) == IF mask >= max THEN mask ELSE MaskFrom(max, 2 * mask + 1)

\* random_interval(max) reading the stream from pos: <<value, next pos>>
RECURSIVE RandomInterval(_, _)
RandomInterval(max, pos) ==
    LET value == MT19937_42[pos] % (MaskFrom(max, 0) + 1)
    IN  IF value <= max THEN <<value, pos + 1>> ELSE RandomInterval(max, pos + 1)

\* shuffle: for i in reversed(range(1, n)): swap arr[i], arr[random_interval(i)]
RECURSIVE Shuffle(_, _, _)
Shuffle(arr, i, pos) ==
    IF i < 1 THEN arr
    ELSE LET d == RandomInterval(i, pos)
             j == d[1]
         IN  Shuffle([arr EXCEPT ![i + 1] = arr[j + 1], ![j + 1] = arr[i + 1]],
                     i - 1, d[2])

\* RandomState(42).permutation(n): a sequence of 0-based positions
Permutation(n) == Shuffle([k \in 1..n |-> k - 1], n - 1, 1)

\* sampling with replacement: every draw reads the stream on its own
SampleWithReplacement(rows, n) ==
    [k \in 1..n |-> rows[(MT19937_42[k] % Len(rows)) + 1]]

\* rows.sample(n, random_state=42)
Sample(rows, n) ==
    LET perm == Permutation(Len(rows))
    IN  [k \in 1..n |-> rows[perm[k] + 1]]

(***************************************************************************)
(* generate_discover_list                                                  *)
(***************************************************************************)
BLANK == <<>>

DiscoverMask(row, start_year, end_year) ==
    Between(row.year, start_year, end_year) /\ ~Excluded(row)

\* the rows the sample is drawn from
DiscoverFiltered(df, start_year, end_year, label_filter) ==
    LET filtered == SelectSeq(df.rows, LAMBDA row : DiscoverMask(row, start_year, end_year))
    IN  IF label_filter # BLANK
        THEN SelectSeq(filtered, LAMBDA row : StrContains(row.label, label_filter))
        ELSE filtered

DiscoverRaises(df, label_filter) ==
    \/ ~({"artist", "year", "label"} \subseteq df.columns)
    \/ (label_filter # BLANK /\ ReCompileRaises(label_filter))

generate_discover_list(df, start_year, end_year, label_filter) ==
    LET filtered == DiscoverFiltered(df, start_year, end_year, label_filter)
    IN  [columns |-> df.columns,
         rows |-> Sample(filtered, Min2(SAMPLE_N, Len(filtered)))]

\* a key that leaves the label out
CacheKeyNoLabel(df, start_year, end_year, label_filter) ==
    <<df, start_year, end_year, BLANK>>

\* the key st.cache_data hashes: every argument of the call
CacheKey(df, start_year, end_year, label_filter) ==
    <<df, start_year, end_year, label_filter>>

(***************************************************************************)
(* create_interactive_calendar                                             *)
(***************************************************************************)
\* dates as day offsets from today
Dates == [i \in 1..NUM_DAYS |-> i - 1]

\* [dates[i:i + 7] for i in range(0, len(dates), 7)]
WeekData(dates) ==
    [w \in 1..((Len(dates) + WEEK_LEN - 1) \div WEEK_LEN) |->
        SubSeq(dates, (w - 1) * WEEK_LEN + 1, Min2(w * WEEK_LEN, Len(dates)))]

\* the album drawn in column idx of a week row
CellAlbum(df, w, idx) ==
    IF Len(df.rows) > idx THEN Some(df.rows[idx + 1]) ELSE None

create_interactive_calendar(df) ==
    LET week_data == WeekData(Dates)
    IN  [w \in 1..Len(week_data) |->
            [k \in 1..Len(week_data[w]) |->
                [date |-> week_data[w][k], album |-> CellAlbum(df, w, k - 1)]]]

(***************************************************************************)
(* Widget inputs                                                           *)
(***************************************************************************)
\* the three text inputs of tab 0: artist, label, tracklist
TextInputs == {
    <<BLANK, BLANK, BLANK>>,
    <<<<"K">>, BLANK, BLANK>>,
    <<<<"k">>, BLANK, BLANK>>,
    <<BLANK, <<".">>, BLANK>>,
    <<BLANK, BLANK, <<"a", "|", "b">>>>,
    <<<<"(">>, BLANK, BLANK>> }
YearRangeInputs == {<<SLIDER_YEAR_MIN, SLIDER_YEAR_MAX>>, <<1999, 2000>>}
StatsRangeInputs == {<<STATS_DEFAULT_LO, STATS_DEFAULT_HI>>}
\* the inputs of tab 3: start year, end year, label
DiscoverInputs == {
    <<SLIDER_YEAR_MIN, SLIDER_YEAR_MAX, BLANK>>,
    <<1999, 2000, <<"A", "s", "f">>>>,
    <<SLIDER_YEAR_MIN, SLIDER_YEAR_MAX, <<".">>>>,
    <<SLIDER_YEAR_MIN, SLIDER_YEAR_MAX, <<"(">>>> }

(***************************************************************************)
(* State of a script run before its first statement                        *)
(***************************************************************************)
NoFilters == [artist |-> BLANK, year |-> <<SLIDER_YEAR_MIN, SLIDER_YEAR_MAX>>,
              label |-> BLANK, tracklist |-> BLANK]
NoStats == [decade_counts |-> <<>>, range |-> <<>>,
            filtered_stats |-> EmptyDataFrame, filtered_decade_counts |-> <<>>]
NoViz == [selected_year |-> None, albums_in_year |-> <<>>, label_year_counts |-> <<>>]

RunStart ==
    /\ pc' = "load"
    /\ err' = "none"
    /\ data' = EmptyDataFrame
    /\ filters' = NoFilters
    /\ filtered_data' = EmptyDataFrame
    /\ total_pages' = 0
    /\ page' = 0
    /\ page_rows' = <<>>
    /\ stats' = NoStats
    /\ viz' = NoViz
    /\ discover_args' = <<>>
    /\ cache_hit' = FALSE
    /\ discover_data' = EmptyDataFrame
    /\ cells' = <<>>

Init ==
    /\ source \in Sources
    /\ pc = "load"
    /\ err = "none"
    /\ runs = 1
    /\ load_cache = <<>>
    /\ data = EmptyDataFrame
    /\ filters = NoFilters
    /\ filtered_data = EmptyDataFrame
    /\ total_pages = 0
    /\ page = 0
    /\ page_rows = <<>>
    /\ stats = NoStats
    /\ viz = NoViz
    /\ discover_args = <<>>
    /\ discover_cache = {}
    /\ cache_hit = FALSE
    /\ discover_data = EmptyDataFrame
    /\ cells = <<>>

\* an uncaught exception ends the run
Raise(stage) == pc' = "error" /\ err' = stage

(***************************************************************************)
(* The script, statement group by statement group                          *)
(***************************************************************************)
\* data = load_data(), first call of the process
LoadFresh ==
    /\ pc = "load"
    /\ load_cache = <<>>
    /\ load_cache' = <<load_data(source)>>
    /\ data' = load_data(source)
    /\ pc' = "browse"
    /\ UNCHANGED <<source, err, runs, filters, filtered_data, total_pages, page,
                   page_rows, stats, viz, discover_args, discover_cache,
                   cache_hit, discover_data, cells>>

\* data = load_data(), served by st.cache_data (a copy of the cached frame)
LoadCached ==
    /\ pc = "load"
    /\ load_cache # <<>>
    /\ data' = load_cache[1]
    /\ pc' = "browse"
    /\ UNCHANGED <<source, err, runs, load_cache, filters, filtered_data,
                   total_pages, page, page_rows, stats, viz, discover_args,
                   discover_cache, cache_hit, discover_data, cells>>

\* lines 103-122
Browse ==
    /\ pc = "browse"
    /\ \E text \in TextInputs, year \in YearRangeInputs :
          LET f == [artist |-> text[1], year |-> year, label |-> text[2],
                    tracklist |-> text[3]]
          IN  /\ filters' = f
              /\ IF BrowseRaises(data, f)
                 THEN Raise("browse") /\ UNCHANGED filtered_data
                 ELSE /\ filtered_data' = BrowseFilter(data, f)
                      /\ pc' = "page"
                      /\ UNCHANGED err
    /\ UNCHANGED <<source, runs, load_cache, data, total_pages, page, page_rows,
                   stats, viz, discover_args, discover_cache, cache_hit,
                   discover_data, cells>>

\* lines 124-130, the slider returning a page
Page ==
    /\ pc = "page"
    /\ total_pages' = TotalPages(Len(filtered_data.rows))
    /\ \E p \in SliderRange(1, total_pages', 1, 1) :
          /\ page' = p
          /\ page_rows' = PageRows(filtered_data, p)
    /\ pc' = "stats"
    /\ UNCHANGED <<source, err, runs, load_cache, data, filters, filtered_data,
                   stats, viz, discover_args, discover_cache, cache_hit,
                   discover_data, cells>>

\* lines 124-126, the slider rejecting its bounds
PageRaise ==
    /\ pc = "page"
    /\ total_pages' = TotalPages(Len(filtered_data.rows))
    /\ SliderMayRaise(1, total_pages', 1, 1)
    /\ Raise("page")
    /\ UNCHANGED <<source, runs, load_cache, data, filters, filtered_data, page,
                   page_rows, stats, viz, discover_args, discover_cache,
                   cache_hit, discover_data, cells>>

\* lines 139-200 up to the slider: the decade column and the counts
StatsHead ==
    /\ data' = WithDecade(data)
    /\ UNCHANGED <<source, runs, load_cache, filters, filtered_data, total_pages,
                   page, page_rows, viz, discover_args, discover_cache,
                   cache_hit, discover_data, cells>>

\* lines 139-200, the slider returning a range
Stats ==
    /\ pc = "stats"
    /\ ~StatsRaises(data)
    /\ StatsHead
    /\ \E range \in StatsRangeInputs :
          /\ range[1] \in SliderRange(SetMin(KnownYears(data)), SetMax(KnownYears(data)),
                                      STATS_DEFAULT_LO, STATS_DEFAULT_HI)
          /\ range[2] \in SliderRange(SetMin(KnownYears(data)), SetMax(KnownYears(data)),
                                      STATS_DEFAULT_LO, STATS_DEFAULT_HI)
          /\ \E filtered_stats \in {StatsFilter(WithDecade(data), range)} :
                stats' = [decade_counts |-> ValueCounts(WithDecade(data).rows, "decade"),
                          range |-> range,
                          filtered_stats |-> filtered_stats,
                          filtered_decade_counts |->
                              ValueCounts(filtered_stats.rows, "decade")]
    /\ pc' = "viz"
    /\ UNCHANGED err

\* lines 139-184: int() of a NaN minimum, or the slider rejecting its default
StatsRaise ==
    /\ pc = "stats"
    /\ "year" \in data.columns
    /\ StatsHead
    /\ \/ KnownYears(data) = {}
       \/ /\ KnownYears(data) # {}
          /\ SliderMayRaise(SetMin(KnownYears(data)), SetMax(KnownYears(data)),
                            STATS_DEFAULT_LO, STATS_DEFAULT_HI)
    /\ stats' = [stats EXCEPT !.decade_counts = ValueCounts(WithDecade(data).rows, "decade")]
    /\ Raise("stats")

\* lines 204-226
Viz ==
    /\ pc = "viz"
    /\ \E selected_year \in FirstYearOptions(data) :
          viz' = [selected_year |-> selected_year,
                  albums_in_year |-> AlbumsInYear(data, selected_year),
                  label_year_counts |-> LabelYearCounts(data)]
    /\ pc' = "discover"
    /\ UNCHANGED <<source, err, runs, load_cache, data, filters, filtered_data,
                   total_pages, page, page_rows, stats, discover_args,
                   discover_cache, cache_hit, discover_data, cells>>

\* line 237: the button was not clicked
NoDiscover ==
    /\ pc = "discover"
    /\ pc' = "done"
    /\ UNCHANGED <<source, err, runs, load_cache, data, filters, filtered_data,
                   total_pages, page, page_rows, stats, viz, discover_args,
                   discover_cache, cache_hit, discover_data, cells>>

\* lines 239-242
Render(df) == IF df.rows # <<>> THEN create_interactive_calendar(df) ELSE <<>>

CachedKeys == {e.key : e \in discover_cache}
CachedValue(key) == (CHOOSE e \in discover_cache : e.key = key).value

\* lines 233-242, generate_discover_list computed
DiscoverFresh ==
    /\ pc = "discover"
    /\ \E input \in DiscoverInputs :
          LET start_year == input[1]
              end_year == input[2]
              label_filter == input[3]
              key == CacheKey(data, start_year, end_year, label_filter)
              result == generate_discover_list(data, start_year, end_year, label_filter)
          IN  /\ key \notin CachedKeys
              /\ discover_args' = <<start_year, end_year, label_filter>>
              /\ cache_hit' = FALSE
              /\ IF DiscoverRaises(data, label_filter)
                 THEN /\ Raise("discover")
                      /\ UNCHANGED <<discover_cache, discover_data, cells>>
                 ELSE /\ discover_data' = result
                      /\ discover_cache' =
                            discover_cache \cup {[key |-> key, value |-> discover_data']}
                      /\ cells' = Render(discover_data')
                      /\ pc' = "done"
                      /\ UNCHANGED err
    /\ UNCHANGED <<source, runs, load_cache, data, filters, filtered_data,
                   total_pages, page, page_rows, stats, viz>>

\* lines 233-242, generate_discover_list served by st.cache_data
DiscoverCached ==
    /\ pc = "discover"
    /\ \E input \in DiscoverInputs :
          LET start_year == input[1]
              end_year == input[2]
              label_filter == input[3]
              key == CacheKey(data, start_year, end_year, label_filter)
          IN  /\ key \in CachedKeys
              /\ discover_args' = <<start_year, end_year, label_filter>>
              /\ cache_hit' = TRUE
              /\ discover_data' = CachedValue(key)
              /\ cells' = Render(discover_data')
    /\ pc' = "done"
    /\ UNCHANGED <<source, err, runs, load_cache, data, filters, filtered_data,
                   total_pages, page, page_rows, stats, viz, discover_cache>>

\* a widget interaction starts the script again; the caches survive
Rerun ==
    /\ pc \in {"done", "error"}
    /\ runs < MaxRuns
    /\ runs' = runs + 1
    /\ RunStart
    /\ UNCHANGED <<source, load_cache, discover_cache>>

Next ==
    \/ LoadFresh
    \/ LoadCached
    \/ Browse
    \/ Page
    \/ PageRaise
    \/ Stats
    \/ StatsRaise
    \/ Viz
    \/ NoDiscover
    \/ DiscoverFresh
    \/ DiscoverCached
    \/ Rerun

Spec == Init /\ [][Next]_vars

(***************************************************************************)
(* Vocabulary of the properties                                            *)
(***************************************************************************)
StageNo(stage) ==
    CASE stage = "load" -> 0 [] stage = "browse" -> 1 [] stage = "page" -> 2
      [] stage = "stats" -> 3 [] stage = "viz" -> 4 [] stage = "discover" -> 5
      [] stage = "done" -> 6

\* the current run has executed `stage` without an exception
Completed(stage) ==
    IF pc = "error" THEN StageNo(err) > StageNo(stage)
    ELSE StageNo(pc) > StageNo(stage)

\* the button was clicked and generate_discover_list returned
Sampled == pc = "done" /\ discover_args # <<>>

\* literal, case-sensitive substring containment
HasSubstring(text, sub) ==
    \E pos \in 1..(Len(text) - Len(sub) + 1) :
        SubSeq(text, pos, pos + Len(sub) - 1) = sub

\* a year that is known and lies in [lower, upper]
YearKnownIn(row, lower, upper) ==
    row.year # None /\ lower <= row.year[1] /\ row.year[1] <= upper

\* rows are told apart by their title, which is unique within a file
HasRow(rows, row) == \E j \in 1..Len(rows) : rows[j].album_title = row.album_title

CeilDiv(n, d) == (n + d - 1) \div d

(***************************************************************************)
(* C1: in the calendar, the cell of the i-th date of the 30-day window     *)
(* carries the i-th entry of the selection when the selection has more     *)
(* than i entries, and no album otherwise.                                 *)
(***************************************************************************)
C1_CellCarriesIthEntry ==
    (Sampled /\ cells # <<>>) =>
        \A w \in 1..Len(cells) : \A k \in 1..Len(cells[w]) :
            LET i == cells[w][k].date
            IN  cells[w][k].album =
                    IF Len(discover_data.rows) > i
                    THEN Some(discover_data.rows[i + 1]) ELSE None

(***************************************************************************)
(* C2: for every filtered result count, total_pages is                     *)
(* max(1, ceil(count / 20)), the selected page lies in [1, total_pages],   *)
(* and the page selection raises no exception.                             *)
(***************************************************************************)
C2_PageBounds ==
    /\ err # "page"
    /\ Completed("page") =>
          /\ total_pages = Max2(1, CeilDiv(Len(filtered_data.rows), results_per_page))
          /\ page \in 1..total_pages

(***************************************************************************)
(* C3: when the load fails, load_data returns an empty catalog and every   *)
(* later step of the run completes with zero matches, without exception.   *)
(***************************************************************************)
C3_EmptyCatalogTolerated ==
    (LoadRaises(source) /\ pc # "load") =>
        /\ data.rows = <<>>
        /\ pc # "error"
        /\ Completed("browse") => filtered_data.rows = <<>>
        /\ Sampled => discover_data.rows = <<>>

(***************************************************************************)
(* C4: with blank artist, label and tracklist predicates and a year range  *)
(* covering the records, the browse filter returns exactly the records     *)
(* that survive the two standing exclusions, absent fields included, and   *)
(* filtering the result again returns it unchanged.                        *)
(***************************************************************************)
C4_BlankFilter ==
    (/\ pc = "page"
     /\ filters.artist = BLANK /\ filters.label = BLANK /\ filters.tracklist = BLANK
     /\ \A i \in 1..Len(data.rows) :
            YearKnownIn(data.rows[i], filters.year[1], filters.year[2]))
    =>  /\ filtered_data.rows = SelectSeq(data.rows, LAMBDA row : ~Excluded(row))
        /\ BrowseFilter(filtered_data, filters) = filtered_data

(***************************************************************************)
(* C5: a record satisfies a year-range predicate [lower, upper] iff its    *)
(* year is known and lower <= year <= upper; a record with unknown year    *)
(* never satisfies it.  Checked on the browse filter and on the sampler:   *)
(* among the records that pass the other predicates, exactly those with a  *)
(* known year in the range are kept.                                       *)
(***************************************************************************)
OtherBrowsePredicates(row) ==
    /\ StrContains(row.artist, filters.artist)
    /\ StrContains(row.label, filters.label)
    /\ StrContains(row.tracklist, filters.tracklist)
    /\ ~Excluded(row)

OtherDiscoverPredicates(row) ==
    /\ ~Excluded(row)
    /\ discover_args[3] = BLANK \/ StrContains(row.label, discover_args[3])

C5_YearRange ==
    /\ Completed("browse") =>
          \A i \in 1..Len(data.rows) :
              LET row == data.rows[i]
                  kept == HasRow(filtered_data.rows, row)
                  inRange == YearKnownIn(row, filters.year[1], filters.year[2])
              IN  /\ kept => inRange
                  /\ OtherBrowsePredicates(row) => (kept <=> inRange)
    /\ Sampled =>
          /\ \A k \in 1..Len(discover_data.rows) :
                YearKnownIn(discover_data.rows[k], discover_args[1], discover_args[2])
          /\ Len(discover_data.rows) < SAMPLE_N =>
                \A i \in 1..Len(data.rows) :
                    OtherDiscoverPredicates(data.rows[i]) =>
                        (HasRow(discover_data.rows, data.rows[i])
                            <=> YearKnownIn(data.rows[i], discover_args[1], discover_args[2]))

\* a record kept at the upper bound next to one dropped for its year alone
C5_Witness ==
    /\ pc = "page"
    /\ \E i \in 1..Len(data.rows) :
          /\ data.rows[i].year = Some(filters.year[2])
          /\ HasRow(filtered_data.rows, data.rows[i])
    /\ \E j \in 1..Len(data.rows) :
          /\ OtherBrowsePredicates(data.rows[j])
          /\ data.rows[j].year # None
          /\ data.rows[j].year[1] > filters.year[2]
          /\ ~HasRow(filtered_data.rows, data.rows[j])

(***************************************************************************)
(* C6: the sampler returns exactly min(30, matchingCount) records, each    *)
(* from the subset passing the year range, the two standing exclusions     *)
(* and (for a non-blank label substring) the label predicate, no catalog   *)
(* record twice; an empty matching subset gives an empty selection.  The   *)
(* label predicate is the one the sampler applies, Series.str.contains.    *)
(***************************************************************************)
MatchesDiscover(row) ==
    /\ YearKnownIn(row, discover_args[1], discover_args[2])
    /\ ~HasSubstring(IF notna(row.artist) THEN row.artist ELSE <<>>, s_Various)
    /\ ~HasSubstring(IF notna(row.label) THEN row.label ELSE <<>>, s_DJMC)
    /\ ~HasSubstring(IF notna(row.label) THEN row.label ELSE <<>>, s_Nielegal)
    /\ discover_args[3] # BLANK => StrContains(row.label, discover_args[3])

MatchingCount == Cardinality({i \in 1..Len(data.rows) : MatchesDiscover(data.rows[i])})

C7_Deterministic ==
    /\ Sampled =>
          discover_data = generate_discover_list(data, discover_args[1],
                                                 discover_args[2], discover_args[3])
    /\ \A e \in discover_cache :
          e.value = generate_discover_list(e.key[1], e.key[2], e.key[3], e.key[4])

\* a non-empty selection served from the cache in a later run
C7_Witness ==
    Sampled /\ cache_hit /\ runs > 1 /\ discover_data.rows # <<>>

(***************************************************************************)
(* C8: after the load, no step of a run changes the catalog: its records   *)
(* and its set of fields stay as load_data returned them.                  *)
(***************************************************************************)
C8_CatalogUnchanged ==
    pc # "load" => data = load_cache[1]

(***************************************************************************)
(* C9: the loader strips commas from the raw year text and yields the      *)
(* integer when the rest is entirely digits, unknown otherwise; no raw     *)
(* year value makes the load fail, so the catalog has one record per row.  *)
(***************************************************************************)
AllDecimal(text) == Len(text) > 0 /\ \A i \in 1..Len(text) : text[i] \in DecimalChars

C9_YearNormalised ==
    (load_cache # <<>> /\ source.exists) =>
        /\ Len(load_cache[1].rows) = Len(source.rows)
        /\ \A i \in 1..Len(load_cache[1].rows) :
              LET raw == source.rows[i].year
              IN  load_cache[1].rows[i].year =
                      IF notna(raw) /\ AllDecimal(StripCommas(raw))
                      THEN Some(IntOf(StripCommas(raw))) ELSE None

(***************************************************************************)
(* C10: a record satisfies a non-blank text predicate iff the field        *)
(* contains the predicate text as a literal, case-sensitive substring,     *)
(* and no predicate text makes the filter or the sampler raise.            *)
(***************************************************************************)
LiteralPredicate(value, text) ==
    notna(value) /\ (text = BLANK \/ HasSubstring(value, text))

C10_LiteralSubstring ==
    /\ "artist" \in data.columns => err \notin {"browse", "discover"}
    /\ Completed("browse") =>
          \A i \in 1..Len(data.rows) :
              LET row == data.rows[i]
              IN  HasRow(filtered_data.rows, row) <=>
                      /\ LiteralPredicate(row.artist, filters.artist)
                      /\ LiteralPredicate(row.label, filters.label)
                      /\ LiteralPredicate(row.tracklist, filters.tracklist)
                      /\ YearKnownIn(row, filters.year[1], filters.year[2])
                      /\ ~Excluded(row)
    /\ (Sampled /\ Len(discover_data.rows) < SAMPLE_N) =>
          \A i \in 1..Len(data.rows) :
              LET row == data.rows[i]
              IN  HasRow(discover_data.rows, row) <=>
                      /\ YearKnownIn(row, discover_args[1], discover_args[2])
                      /\ ~Excluded(row)
                      /\ discover_args[3] = BLANK
                            \/ LiteralPredicate(row.label, discover_args[3])

====
